---- MODULE Spec2Model ----
(***************************************************************************)
(* Model of the Salesforce Data Cloud MCP server                            *)
(* (src/salesforce_mcp_server.py): the tool dispatch (call_tool), the       *)
(* credential acquisition (_authenticate), the query path with its two      *)
(* API generations and their pagination (_query_data_cloud), the dialect    *)
(* translation (_convert_sql_to_soql), and the Connect operations that      *)
(* answer with a simulated result or fall back to the query path.           *)
(*                                                                         *)
(* Texts are sequences of one-character strings, so that upper(),           *)
(* startswith(), replace() and split() are computed character by            *)
(* character as Python computes them.                                       *)
(***************************************************************************)
EXTENDS Integers, Sequences, FiniteSets, TLC

-----------------------------------------------------------------------------
(* Python str operations used by _convert_sql_to_soql *)

\* str.upper() on one character (the letters the modelled texts contain)
UpperChar(c) ==
    CASE c = "s" -> "S" [] c = "e" -> "E" [] c = "l" -> "L" [] c = "c" -> "C"
      [] c = "t" -> "T" [] c = "o" -> "O" [] c = "p" -> "P" [] c = "f" -> "F"
      [] c = "r" -> "R" [] c = "m" -> "M" [] c = "a" -> "A" [] c = "b" -> "B"
      [] c = "i" -> "I" [] c = "x" -> "X"
      [] OTHER -> c

\* str.upper()
Upper(s) == [i \in 1..Len(s) |-> UpperChar(s[i])]

\* str.startswith(prefix)
StartsWith(s, prefix) ==
    /\ Len(s) >= Len(prefix)
    /\ SubSeq(s, 1, Len(prefix)) = prefix

\* str.find(pat): the least index at which pat occurs in s, 0 when it does not
Find(s, pat) ==
    LET hits == {i \in 1..(Len(s) - Len(pat) + 1) :
                    SubSeq(s, i, i + Len(pat) - 1) = pat}
    IN IF hits = {} THEN 0
       ELSE CHOOSE i \in hits : \A j \in hits : i <= j

\* str.replace(old, new, 1): the first occurrence only
ReplaceFirst(s, old, new) ==
    LET i == Find(s, old)
    IN IF i = 0 THEN s
       ELSE SubSeq(s, 1, i - 1) \o new \o SubSeq(s, i + Len(old), Len(s))

\* str.split(sep): the pieces between the non-overlapping occurrences of sep,
\* found left to right; empty pieces are kept
RECURSIVE Split(_, _)
Split(s, sep) ==
    LET i == Find(s, sep)
    IN IF i = 0 THEN <<s>>
       ELSE <<SubSeq(s, 1, i - 1)>>
            \o Split(SubSeq(s, i + Len(sep), Len(s)), sep)

IsSpace(c) == c \in {" ", "\n", "\t"}

\* str.split() without argument: the maximal runs of non-whitespace
RECURSIVE SplitWs(_)
SplitWs(s) ==
    IF s = <<>> THEN <<>>
    ELSE IF IsSpace(s[1]) THEN SplitWs(Tail(s))
    ELSE LET stops == {i \in 1..Len(s) : IsSpace(s[i])}
             e == IF stops = {} THEN Len(s) + 1
                  ELSE CHOOSE i \in stops : \A j \in stops : i <= j
         IN <<SubSeq(s, 1, e - 1)>> \o SplitWs(SubSeq(s, e, Len(s)))

\* sep.join(words)
RECURSIVE Join(_, _)
Join(sep, words) ==
    IF words = <<>> THEN <<>>
    ELSE IF Len(words) = 1 THEN words[1]
    ELSE words[1] \o sep \o Join(sep, Tail(words))

\* the literals of _convert_sql_to_soql
SP == <<" ">>
kwSELECT == <<"S", "E", "L", "E", "C", "T">>
kwTOP == <<"T", "O", "P">>
kwFROM == <<"F", "R", "O", "M">>
kwLIMIT == <<"L", "I", "M", "I", "T">>

\* _convert_sql_to_soql(query), lines 704-721
convert_sql_to_soql(query) ==
    IF StartsWith(Upper(query), kwSELECT \o SP \o kwTOP)
    THEN LET q1 == ReplaceFirst(query, kwSELECT \o SP \o kwTOP \o SP,
                                kwSELECT \o SP)
             parts == Split(q1, SP \o kwFROM \o SP)
         IN IF Len(parts) = 2
            THEN LET select_words == SplitWs(parts[1])
                 IN IF Len(select_words) > 2
                    THEN LET limit_num == select_words[3]
                             remaining_select ==
                                 Join(SP, SubSeq(select_words, 4,
                                                 Len(select_words)))
                         IN kwSELECT \o SP \o remaining_select \o SP
                            \o kwFROM \o SP \o parts[2] \o SP
                            \o kwLIMIT \o SP \o limit_num
                    ELSE q1
            ELSE q1
    ELSE query

-----------------------------------------------------------------------------
(* Bounds of the model *)

\* concurrent tool calls
NumProcs == 2
\* rows one invocation may accumulate (the mock platform serves a page that
\* carries rows only while the total stays within this bound)
MaxRows == 2
\* length of the per-invocation request and response histories; a history
\* that is full records nothing further
MaxLog == 4

Procs == 1..NumProcs

-----------------------------------------------------------------------------
(* Values *)

\* Python None (str(None) = "None" is what an f-string formats it to)
None == "None"

\* self.api_version, os.getenv default
api_version == "v59.0"

EmptyDict == [k \in {} |-> None]

\* dict.get(key, default) / "key in dict"
Get(d, k, default) == IF k \in DOMAIN d THEN d[k] ELSE default

\* truth value of an optional str: None and "" are false
TruthyStr(v) == v \notin {None, ""}

\* a history that records the first MaxLog entries
Log(h, e) == IF Len(h) < MaxLog THEN Append(h, e) ELSE h

RECURSIVE Flatten(_)
Flatten(ss) == IF ss = <<>> THEN <<>> ELSE Head(ss) \o Flatten(Tail(ss))

\* the texts of the modelled queries
txtTopUpper == kwSELECT \o SP \o kwTOP \o SP \o <<"5">> \o SP \o <<"a">>
               \o SP \o kwFROM \o SP \o <<"t">>

\* the fixed query of _get_connect_segments without filters, lines 1207-1218
\* ("SELECT <fields> FROM Segment__dlm LIMIT 100", fields abbreviated)
txtSegments == kwSELECT \o SP \o <<"I", "d">> \o SP \o kwFROM \o SP
               \o <<"S", "e", "g">> \o SP \o kwLIMIT \o SP \o <<"1", "0", "0">>

\* error texts a response body or a transport exception may carry
ErrTexts == {"Internal Server Error", "HTTP 404 Not Found",
             "URL No Longer Exists", "Session expired or invalid"}

\* "404" in text / "URL No Longer Exists" in text, for the texts above
Has404(t) == t = "HTTP 404 Not Found"
HasGone(t) == t = "URL No Longer Exists"

-----------------------------------------------------------------------------
(* State *)

VARIABLES
    session_id,     \* self.session_id: None or the bearer token
    instance_url,   \* self.instance_url: None or the base URL
    pc,             \* per call: the await point the coroutine is suspended at
    name,           \* per call: the tool name given to call_tool
    arguments,      \* per call: the arguments dict given to call_tool
    loc,            \* per call: the local variables of _query_data_cloud
    outcome,        \* per call: what call_tool returned
    reqs,           \* per call: history of the requests it sent
    resps,          \* per call: history of the answers it received
    prior,          \* per call: before it began, a v2 request had got a 404
    cq,             \* translator check: the input text
    cs              \* translator check: the text _convert_sql_to_soql returned

vars == <<session_id, instance_url, pc, name, arguments, loc, outcome,
          reqs, resps, prior, cq, cs>>

cred == <<session_id, instance_url>>
conv == <<cq, cs>>

\* tools whose handler returns what _query_data_cloud returns
QueryTools == {"query_data_cloud", "get_segment_members"}
\* tools that POST to the Connect API and simulate on failure
MutatingTools == {"activate_segment", "ingest_data_cloud",
                  "real_time_segment_events"}
\* tools that GET from the Connect API and fall back to the query path
ConnectTools == {"get_connect_segments", "get_connect_segment_details",
                 "get_connect_segment_members", "search_connect_segments",
                 "get_calculated_insights"}
\* POSTs to the Connect API, then the query path or a simulated result
ProfileTools == {"manage_profiles"}
\* GETs from the Connect API and simulates on failure
ActivationTools == {"get_segment_activations"}

KnownTools == QueryTools \cup MutatingTools \cup ConnectTools \cup ProfileTools
              \cup ActivationTools

\* arguments[...] lookups of call_tool, in evaluation order (lines 418-506)
Required(nm) ==
    CASE nm = "query_data_cloud" -> <<"query">>
      [] nm = "activate_segment" -> <<"segment_id", "activation_target">>
      [] nm = "ingest_data_cloud" -> <<"object_name", "data">>
      [] nm = "real_time_segment_events" -> <<"segment_id", "event_types">>
      [] nm = "manage_profiles" -> <<"operation">>
      [] nm = "get_segment_members" -> <<"segment_id">>
      [] nm = "get_connect_segment_details" -> <<"segment_id">>
      [] nm = "get_connect_segment_members" -> <<"segment_id">>
      [] nm = "search_connect_segments" -> <<"search_term">>
      [] OTHER -> <<>>

\* the key of the first arguments[...] lookup that fails, None when all succeed
MissingKey(nm, a) ==
    LET req == Required(nm)
        miss == {i \in 1..Len(req) : req[i] \notin DOMAIN a}
    IN IF miss = {} THEN None
       ELSE req[CHOOSE i \in miss : \A j \in miss : i <= j]

NoLoc == [query |-> <<>>, token |-> None, dc_url |-> <<>>,
          all_records |-> <<>>, result |-> EmptyDict,
          batch_id |-> None, next_url |-> <<>>]

NoOutcome == [kind |-> "none"]

\* return [TextContent(text=json.dumps(result))], lines 510-513
JsonOutcome(result) == [kind |-> "json", value |-> result]

\* variant of ErrorOutcome: call_tool without its except clause, the
\* exception leaves the entry point
ErrorOutcome_Escape(msg) == [kind |-> "crash", text |-> msg]

\* return [TextContent(text=f"Error: {str(e)}")], lines 515-520
ErrorOutcome(msg) == [kind |-> "error", text |-> <<"Error: ">> \o msg]

Init ==
    /\ session_id = None
    /\ instance_url = None
    /\ pc = [p \in Procs |-> "idle"]
    /\ name = [p \in Procs |-> None]
    /\ arguments = [p \in Procs |-> EmptyDict]
    /\ loc = [p \in Procs |-> NoLoc]
    /\ outcome = [p \in Procs |-> NoOutcome]
    /\ reqs = [p \in Procs |-> <<>>]
    /\ resps = [p \in Procs |-> <<>>]
    /\ prior = [p \in Procs |-> FALSE]
    /\ cq = <<>>
    /\ cs = <<>>

-----------------------------------------------------------------------------
(* Requests and answers *)

\* one outbound HTTP request
Req(api, method, url, token, q) ==
    [api |-> api, method |-> method, url |-> url, token |-> token, q |-> q]

\* what the history keeps of an answer: which API gave it, and the answer
Resp(api, r) ==
    [api |-> api, kind |-> r.kind, status |-> r.status, body |-> r.body,
     text |-> r.text]

\* an answer with a status; body is the JSON object, text the body as text
Http(status, body, text) ==
    [kind |-> "http", status |-> status, body |-> body, text |-> text]

\* a transport exception with its message
Exc(text) == [kind |-> "exc", status |-> 0, body |-> EmptyDict, text |-> text]

-----------------------------------------------------------------------------
(* _query_data_cloud, lines 603-702 *)

\* a step of a coroutine up to its next await: the await point it suspends
\* at, its locals, the request it sends, and what the query path returned
\* or raised when the step ends it
QNone == [kind |-> "none", value |-> EmptyDict, msg |-> <<>>]
QReturn(v) == [kind |-> "return", value |-> v, msg |-> <<>>]
QRaise(msg) == [kind |-> "raise", value |-> EmptyDict, msg |-> msg]

Suspend(at, l, req) == [pc |-> at, loc |-> l, send |-> <<req>>, q |-> QNone]
EndQuery(l, q) == [pc |-> "done", loc |-> l, send |-> <<>>, q |-> q]

\* variant of ExtendRows: rows already accumulated are not appended again
ExtendRows_Dedup(all_records, result, field) ==
    IF field \in DOMAIN result
    THEN all_records
         \o SelectSeq(result[field],
                      LAMBDA x : \A i \in 1..Len(all_records) : all_records[i] # x)
    ELSE all_records

\* variant of ExtendRows: the rows are accumulated in one list that all the
\* invocations in progress share
ExtendRows_Shared(all_records, result, field) ==
    LET shared == Flatten([q \in 1..NumProcs |-> loc[q].all_records])
    IN IF field \in DOMAIN result THEN shared \o result[field] ELSE shared

\* if field in result: all_records.extend(result[field])
\* (lines 630-631, 643-644, 689-690)
ExtendRows(all_records, result, field) ==
    IF field \in DOMAIN result THEN all_records \o result[field]
    ELSE all_records

\* variant of V2Result: the count is that of the first page
V2Result_FirstPageCount(all_records, result) ==
    [data |-> all_records, metadata |-> Get(result, "metadata", EmptyDict),
     done |-> TRUE, totalSize |-> Len(Get(result, "data", <<>>))]

\* the dict returned in Data Cloud format, lines 649-654
V2Result(all_records, result) ==
    [data |-> all_records, metadata |-> Get(result, "metadata", EmptyDict),
     done |-> TRUE, totalSize |-> Len(all_records)]

\* variant of SoqlResult: the rows are returned in the Data Cloud format
SoqlResult_AsV2(all_records) ==
    [data |-> all_records, done |-> TRUE, totalSize |-> Len(all_records)]

\* the dict returned in SOQL format, lines 698-702
SoqlResult(all_records) ==
    [records |-> all_records, done |-> TRUE, totalSize |-> Len(all_records)]

\* variant of IsUnavailable: only the 404 status, never the text of an
\* error, makes the v2 target count as unavailable
IsUnavailable_StatusOnly(msg) == FALSE

\* "404" in str(e) or "URL No Longer Exists" in str(e), line 665
IsUnavailable(msg) ==
    \E i \in 1..Len(msg) : Has404(msg[i]) \/ HasGone(msg[i])

\* next_url.startswith('/'), line 679
IsRelative(url) == url # <<>> /\ url[1] = "/"

\* lines 679-680: a relative URL is prefixed with self.instance_url
Resolve(next_url, iurl) ==
    IF IsRelative(next_url) THEN <<iurl>> \o next_url ELSE next_url

\* variant of NextRecordsUrl: nextRecordsUrl is followed whatever done says
NextRecordsUrl_IgnoreDone(result) == Get(result, "nextRecordsUrl", <<>>)

\* lines 692-695: the URL of the next legacy page, <<>> when there is none
NextRecordsUrl(result) ==
    IF Get(result, "done", TRUE) THEN <<>>
    ELSE Get(result, "nextRecordsUrl", <<>>)

\* some call has had a v2 request answered 404
SeenGone ==
    \E q \in Procs : \E i \in 1..Len(resps[q]) :
        /\ resps[q][i].api = "v2"
        /\ resps[q][i].kind = "http" /\ resps[q][i].status = 404

\* variant of StartQuery: a router that remembers that the v2 target was
\* gone and then starts at the legacy target
StartQuery_Remember(query, sid, iurl) ==
    LET dc_url == <<iurl, "/api/v2/query">>
        url == <<iurl, "/services/data/", api_version, "/query?q=">>
        l == [NoLoc EXCEPT !.query = query, !.token = sid, !.dc_url = dc_url]
    IN IF SeenGone
       THEN Suspend("soql_get", [l EXCEPT !.next_url = url],
                    Req("soql", "GET", url, sid, convert_sql_to_soql(query)))
       ELSE Suspend("v2_post", l, Req("v2", "POST", dc_url, sid, query))

\* lines 609-625: build the v2 request from the credential and send it
StartQuery(query, sid, iurl) ==
    LET dc_url == <<iurl, "/api/v2/query">>
        l == [NoLoc EXCEPT !.query = query, !.token = sid, !.dc_url = dc_url]
    IN Suspend("v2_post", l, Req("v2", "POST", dc_url, sid, query))

\* lines 636-637: the follow-up GET for a batch id
SendBatch(l, batch_id) ==
    Suspend("v2_batch", [l EXCEPT !.batch_id = batch_id],
            Req("v2", "GET", l.dc_url \o <<"?batchId=", batch_id>>,
                l.token, <<>>))

\* variant of StartSoql: the query goes to the legacy target as it was given
StartSoql_Untranslated(l, iurl) ==
    LET soql_url == <<iurl, "/services/data/", api_version, "/query?q=">>
        url == Resolve(soql_url, iurl)
    IN Suspend("soql_get", [l EXCEPT !.next_url = url],
               Req("soql", "GET", url, l.token, l.query))

\* lines 670-682: translate, build the legacy URL, send the first legacy GET
StartSoql(l, iurl) ==
    LET soql_query == convert_sql_to_soql(l.query)
        soql_url == <<iurl, "/services/data/", api_version, "/query?q=">>
        url == Resolve(soql_url, iurl)
    IN Suspend("soql_get", [l EXCEPT !.next_url = url],
               Req("soql", "GET", url, l.token, soql_query))

\* variant of V2Except: every failure of the v2 target falls back
V2Except_AlwaysFallback(l, msg, iurl) == StartSoql(l, iurl)

\* lines 664-668: the except clause around the v2 request and its pagination
V2Except(l, msg, iurl) ==
    IF IsUnavailable(msg) THEN StartSoql(l, iurl)
    ELSE EndQuery(l, QRaise(msg))

\* lines 634-654: the batch loop from its test onwards
V2Loop(l, batch_id) ==
    IF TruthyStr(batch_id) THEN SendBatch(l, batch_id)
    ELSE EndQuery([l EXCEPT !.batch_id = batch_id],
                  QReturn(V2Result(l.all_records, l.result)))

\* lines 625-668: the answer to the initial v2 POST
OnV2Post(l, r, iurl) ==
    IF r.kind = "exc" THEN V2Except(l, <<r.text>>, iurl)
    ELSE IF r.status = 200
    THEN LET l1 == [l EXCEPT !.result = r.body,
                        !.all_records = ExtendRows(l.all_records, r.body,
                                                   "data")]
         IN V2Loop(l1, Get(r.body, "nextBatchId", None))
    ELSE IF r.status = 404 THEN StartSoql(l, iurl)
    ELSE V2Except(l, <<"Data Cloud Query failed: ", r.text>>, iurl)

\* variant of OnV2Batch: a follow-up that fails raises as the initial request
\* does
OnV2Batch_RaiseOnFailure(l, r, iurl) ==
    IF r.kind = "exc" THEN V2Except(l, <<r.text>>, iurl)
    ELSE IF r.status # 200
    THEN V2Except(l, <<"Data Cloud Query failed: ", r.text>>, iurl)
    ELSE LET l1 == [l EXCEPT !.all_records =
                        ExtendRows(l.all_records, r.body, "data")]
         IN V2Loop(l1, Get(r.body, "nextBatchId", None))

\* lines 637-646: the answer to a batch follow-up
OnV2Batch(l, r, iurl) ==
    IF r.kind = "exc" THEN V2Except(l, <<r.text>>, iurl)
    ELSE IF r.status # 200
    THEN EndQuery(l, QReturn(V2Result(l.all_records, l.result)))
    ELSE LET l1 == [l EXCEPT !.all_records =
                        ExtendRows(l.all_records, r.body, "data")]
         IN V2Loop(l1, Get(r.body, "nextBatchId", None))

\* variant of OnSoql: a legacy page that fails ends the pagination and the
\* rows accumulated so far are returned, as the batch loop does
OnSoql_Partial(l, r, iurl) ==
    IF r.kind = "exc" THEN EndQuery(l, QRaise(<<r.text>>))
    ELSE IF r.status # 200
    THEN EndQuery([l EXCEPT !.next_url = <<>>],
                  QReturn(SoqlResult(l.all_records)))
    ELSE LET l1 == [l EXCEPT !.all_records =
                        ExtendRows(l.all_records, r.body, "records")]
             next_url == NextRecordsUrl(r.body)
         IN IF next_url # <<>>
            THEN LET url == Resolve(next_url, iurl)
                 IN Suspend("soql_get", [l1 EXCEPT !.next_url = url],
                            Req("soql", "GET", url, l.token, <<>>))
            ELSE EndQuery([l1 EXCEPT !.next_url = <<>>],
                          QReturn(SoqlResult(l1.all_records)))

\* lines 678-702: the answer to a legacy GET
OnSoql(l, r, iurl) ==
    IF r.kind = "exc" THEN EndQuery(l, QRaise(<<r.text>>))
    ELSE IF r.status # 200
    THEN EndQuery(l, QRaise(<<"SOQL Query failed: ", r.text>>))
    ELSE LET l1 == [l EXCEPT !.all_records =
                        ExtendRows(l.all_records, r.body, "records")]
             next_url == NextRecordsUrl(r.body)
         IN IF next_url # <<>>
            THEN LET url == Resolve(next_url, iurl)
                 IN Suspend("soql_get", [l1 EXCEPT !.next_url = url],
                            Req("soql", "GET", url, l.token, <<>>))
            ELSE EndQuery([l1 EXCEPT !.next_url = <<>>],
                          QReturn(SoqlResult(l1.all_records)))

-----------------------------------------------------------------------------
(* The tool handlers *)

\* a step of call_tool up to its next await: as Suspend/EndQuery, with what
\* call_tool returned when the step ends the call (the locals end with it)
Await(at, l, req) == [pc |-> at, loc |-> l, send |-> <<req>>, out |-> NoOutcome]
Finish(out) == [pc |-> "done", loc |-> NoLoc, send |-> <<>>, out |-> out]

\* result.get("records", []) if "records" in result else result.get("data", [])
\* (lines 1222, 1258, 1315, 1362)
RowsOf(result) ==
    IF "records" \in DOMAIN result THEN result["records"]
    ELSE Get(result, "data", <<>>)

\* what a fallback handler returns when the query path returned result
\* (lines 1040-1046, 1080-1086, 1220-1225, 1257-1270, 1313-1321, 1361-1368)
FallbackResult(nm, a, result) ==
    CASE nm = "get_connect_segments" ->
            [segments |-> RowsOf(result),
             source |-> "Query API fallback",
             note |-> "Connect Data API not available - using Query API"]
      [] nm = "get_connect_segment_details" ->
            IF RowsOf(result) # <<>>
            THEN [segment |-> RowsOf(result)[1],
                  source |-> "Query API fallback",
                  note |-> "Connect Data API not available - using Query API"]
            ELSE [error |-> <<"Segment ", a["segment_id"], " not found">>,
                  segment |-> None]
      [] nm = "get_connect_segment_members" ->
            [members |-> RowsOf(result),
             totalCount |-> Len(RowsOf(result)),
             limit |-> Get(a, "limit", 100),
             offset |-> Get(a, "offset", 0),
             source |-> "Query API fallback",
             note |-> "Connect Data API not available - using Query API"]
      [] nm = "search_connect_segments" ->
            [segments |-> RowsOf(result),
             searchTerm |-> a["search_term"],
             exactMatch |-> Get(a, "exact_match", FALSE),
             source |-> "Query API fallback",
             note |-> "Connect Data API not available - using Query API"]
      [] nm = "get_calculated_insights" ->
            [insights |-> Get(result, "records", <<>>),
             source |-> "Query API fallback",
             note |-> "Data Cloud Connect API not available - using Query API"]
      [] OTHER ->
            [identity_graph |-> Get(result, "records", <<>>),
             operation |-> a["operation"],
             source |-> "Query API fallback"]

\* the fabricated result of manage_profiles, lines 1090-1096
SimulatedProfile(a) ==
    [status |-> "simulated",
     operation |-> a["operation"],
     message |-> <<"Profile ", a["operation"], " operation simulated">>,
     profile_data |-> Get(a, "profile_data", EmptyDict),
     note |-> "Data Cloud Connect API not available - operation simulated"]

\* what a fallback handler returns when the query path raised an exception
\* with message msg (lines 1047-1052, 1087-1096, 1226-1231, 1271-1275,
\* 1322-1326, 1369-1373)
FallbackFailure(nm, a, msg) ==
    CASE nm = "get_connect_segments" ->
            [error |-> <<"Both Connect Data API and Query API failed: ">> \o msg,
             segments |-> <<>>,
             note |-> "All segment APIs unavailable"]
      [] nm = "get_connect_segment_details" ->
            [error |-> <<"Failed to get segment details: ">> \o msg,
             segment |-> None]
      [] nm = "get_connect_segment_members" ->
            [error |-> <<"Failed to get segment members: ">> \o msg,
             members |-> <<>>]
      [] nm = "search_connect_segments" ->
            [error |-> <<"Segment search failed: ">> \o msg,
             segments |-> <<>>,
             searchTerm |-> a["search_term"]]
      [] nm = "get_calculated_insights" ->
            [status |-> "simulated",
             message |-> <<"Calculated insights simulated for ",
                           IF TruthyStr(Get(a, "insight_name", None))
                           THEN a["insight_name"] ELSE "all insights">>,
             note |-> "Data Cloud Connect API not available - insights simulated"]
      [] OTHER -> SimulatedProfile(a)

\* variant of AfterQuery: the fallback handlers without their try/except
AfterQuery_NoExcept(nm, a, q) ==
    IF q.kind = "raise" THEN ErrorOutcome(q.msg)
    ELSE IF nm \in QueryTools THEN JsonOutcome(q.value)
    ELSE JsonOutcome(FallbackResult(nm, a, q.value))

\* the code of a tool handler after "await self._query_data_cloud(...)":
\* call_tool's own return or except clause (lines 419, 510-520), or the
\* try/except of the fallback handler
AfterQuery(nm, a, q) ==
    IF nm \in QueryTools
    THEN IF q.kind = "return" THEN JsonOutcome(q.value)
         ELSE ErrorOutcome(q.msg)
    ELSE IF q.kind = "return" THEN JsonOutcome(FallbackResult(nm, a, q.value))
         ELSE JsonOutcome(FallbackFailure(nm, a, q.msg))

\* a step of the query path as a step of the tool call that runs it
WrapQuery(nm, a, qs) ==
    IF qs.q.kind = "none"
    THEN [pc |-> qs.pc, loc |-> qs.loc, send |-> qs.send, out |-> NoOutcome]
    ELSE Finish(AfterQuery(nm, a, qs.q))

\* _get_data_cloud_connect_base_url, line 944
connect_base_url(iurl) == <<iurl, "/services/data/v64.0">>

\* _get_connect_data_base_url, line 1175
connect_data_base_url(iurl) ==
    <<iurl, "/services/data/", api_version, "/connect/data">>

\* the URL a simulating tool sends its request to (lines 951, 983,
\* 1102-1117, 1145)
MutatingUrl(nm, a, iurl) ==
    CASE nm = "activate_segment" ->
            connect_base_url(iurl) \o <<"/segments/", a["segment_id"], "/activations">>
      [] nm = "ingest_data_cloud" ->
            connect_base_url(iurl) \o <<"/ingest/", a["object_name"]>>
      [] nm = "get_segment_activations" ->
            connect_base_url(iurl) \o <<"/segments">>
            \o (IF TruthyStr(Get(a, "segment_id", None))
                THEN <<"/", a["segment_id"], "/activations">>
                ELSE <<"/activations">>)
            \o (IF TruthyStr(Get(a, "activation_type", None))
                THEN <<"?type=", a["activation_type"]>> ELSE <<>>)
      [] OTHER ->
            connect_base_url(iurl) \o <<"/segments/", a["segment_id"], "/events/subscribe">>

\* data[:3], line 1005
Preview(data) == SubSeq(data, 1, IF Len(data) < 3 THEN Len(data) ELSE 3)

\* the reading of the clock in a fabricated result (lines 1133, 1167)
Now == "datetime.now()"

\* variant of Simulated: the fabricated result without its marker
Simulated_Unmarked(nm, a) ==
    [message |-> <<"simulated for ", nm>>,
     note |-> "Data Cloud Connect API not available"]

\* the fabricated result of a simulating tool (lines 970-976, 1001-1008,
\* 1125-1138, 1163-1171)
Simulated(nm, a) ==
    CASE nm = "activate_segment" ->
            [status |-> "simulated",
             message |-> <<"Segment activation simulated for ", a["segment_id"]>>,
             activation_target |-> a["activation_target"],
             config |-> Get(a, "activation_config", EmptyDict),
             note |-> "Data Cloud Connect API not available - activation simulated"]
      [] nm = "ingest_data_cloud" ->
            [status |-> "simulated",
             message |-> <<"Data ingestion simulated for ", a["object_name"]>>,
             operation |-> Get(a, "operation", "upsert"),
             records_processed |-> Len(a["data"]),
             records_preview |-> Preview(a["data"]),
             note |-> "Data Cloud Connect API not available - ingestion simulated"]
      [] nm = "get_segment_activations" ->
            [status |-> "simulated",
             segment_id |-> Get(a, "segment_id", None),
             activation_type |-> Get(a, "activation_type", None),
             activations |->
                <<[id |-> "activation_001",
                   type |-> IF TruthyStr(Get(a, "activation_type", None))
                            THEN a["activation_type"] ELSE "email",
                   status |-> "active",
                   created_date |-> Now,
                   target_count |-> 1250]>>,
             note |-> "Data Cloud Connect API not available - activations simulated"]
      [] OTHER ->
            [status |-> "simulated",
             segment_id |-> a["segment_id"],
             event_types |-> a["event_types"],
             webhook_url |-> Get(a, "webhook_url", None),
             subscription_id |-> <<"sub_", a["segment_id"], "_", Now>>,
             message |-> "Real-time event subscription simulated",
             note |-> "Data Cloud Connect API not available - event subscription simulated"]

\* the statuses a simulating tool takes as success (lines 965, 996, 1121,
\* 1159)
Accepted(nm) == IF nm \in ActivationTools THEN {200} ELSE {200, 201}

\* lines 950-965, 982-996, 1102-1120, 1144-1159: build the request (a POST,
\* for get_segment_activations a GET) and send it
StartMutating(nm, a, sid, iurl) ==
    Await("mut_post", NoLoc,
          Req("connect", IF nm \in ActivationTools THEN "GET" ELSE "POST",
              MutatingUrl(nm, a, iurl), sid, <<>>))

\* variant of OnMutating: a failed POST is surfaced as an error
OnMutating_Raise(nm, a, r) ==
    IF r.kind = "exc" THEN Finish(ErrorOutcome(<<r.text>>))
    ELSE IF r.status \in Accepted(nm) THEN Finish(JsonOutcome(r.body))
    ELSE Finish(ErrorOutcome(<<"Upstream error: ", r.text>>))

\* variant of OnMutating: a failed POST is sent again
OnMutating_Retry(nm, a, r) ==
    IF r.kind = "exc" THEN Finish(ErrorOutcome(<<r.text>>))
    ELSE IF r.status \in Accepted(nm) THEN Finish(JsonOutcome(r.body))
    ELSE Await("mut_post", NoLoc,
               Req("connect", "POST", MutatingUrl(nm, a, None), None, <<>>))

\* lines 965-976, 996-1008, 1121-1138, 1159-1171: the answer to the request
\* of a simulating tool; an exception leaves the handler and reaches
\* call_tool's except
OnMutating(nm, a, r) ==
    IF r.kind = "exc" THEN Finish(ErrorOutcome(<<r.text>>))
    ELSE IF r.status \in Accepted(nm) THEN Finish(JsonOutcome(r.body))
    ELSE Finish(JsonOutcome(Simulated(nm, a)))

\* the URL a fallback tool first turns to (lines 1014-1018, 1058-1059, 1182,
\* 1237, 1282-1292, 1333-1343)
ConnectUrl(nm, a, iurl) ==
    CASE nm = "get_connect_segments" ->
            connect_data_base_url(iurl) \o <<"/segments">>
      [] nm = "get_connect_segment_details" ->
            connect_data_base_url(iurl) \o <<"/segments/", a["segment_id"]>>
      [] nm = "get_connect_segment_members" ->
            connect_data_base_url(iurl)
            \o <<"/segments/", a["segment_id"], "/members", "?limit=100&offset=0">>
      [] nm = "search_connect_segments" ->
            connect_data_base_url(iurl)
            \o <<"/segments/search", "?q=", a["search_term"], "&exact=false">>
      [] nm = "get_calculated_insights" ->
            connect_base_url(iurl) \o <<"/insights">>
      [] OTHER ->
            connect_base_url(iurl) \o <<"/profiles/", a["operation"]>>

\* the query a fallback tool hands to the query path (lines 1035-1038,
\* 1075-1079, 1207-1218, 1248-1253, 1302-1311, 1355-1360); none of them
\* begins with SELECT TOP
FallbackQuery(nm, a) ==
    CASE nm = "get_connect_segments" -> txtSegments
      [] nm = "get_connect_segment_details" ->
            <<"\n", " ">> \o kwSELECT \o SP \o <<"I", "d">> \o SP \o kwFROM \o SP
            \o <<"S", "e", "g">> \o SP \o <<"WHERE Id = '", a["segment_id"], "'">>
      [] nm = "get_connect_segment_members" ->
            <<"\n", " ">> \o kwSELECT \o SP \o <<"P", "r", "o", "f">> \o SP
            \o kwFROM \o SP \o <<"M", "e", "m">> \o SP
            \o <<"WHERE SegmentId__c = '", a["segment_id"], "'">> \o SP
            \o kwLIMIT \o SP \o <<"1", "0", "0">>
      [] nm = "search_connect_segments" ->
            kwSELECT \o SP \o <<"I", "d">> \o SP \o kwFROM \o SP
            \o <<"S", "e", "g">> \o SP
            \o <<"WHERE Name LIKE '%", a["search_term"], "%'">> \o SP
            \o kwLIMIT \o SP \o <<"5", "0">>
      [] nm = "get_calculated_insights" ->
            kwSELECT \o SP \o <<"I", "d">> \o SP \o kwFROM \o SP
            \o <<"I", "n", "s">> \o SP \o kwLIMIT \o SP \o <<"1", "0", "0">>
      [] OTHER ->
            <<"\n", " ">> \o kwSELECT \o SP \o <<"I", "d">> \o SP \o kwFROM \o SP
            \o <<"U", "n", "i">> \o SP \o kwLIMIT \o SP \o <<"1", "0">>

\* lines 1029-1030, 1070-1071, 1199-1200: build the Connect request (a GET,
\* for manage_profiles a POST) and send it
StartConnect(nm, a, sid, iurl) ==
    Await("connect_req", NoLoc,
          Req("connect", IF nm \in ProfileTools THEN "POST" ELSE "GET",
              ConnectUrl(nm, a, iurl), sid, <<>>))

\* the answer to the Connect request of a fallback tool: 200 is returned as
\* it is; any other status starts the query path with the credential as it
\* is now, except for a manage_profiles operation other than
\* get_identity_graph, which is simulated at once; an exception leaves the
\* handler
OnConnect(nm, a, r, sid, iurl) ==
    IF r.kind = "exc" THEN Finish(ErrorOutcome(<<r.text>>))
    ELSE IF r.status = 200 THEN Finish(JsonOutcome(r.body))
    ELSE IF nm \in ProfileTools /\ a["operation"] # "get_identity_graph"
    THEN Finish(JsonOutcome(SimulatedProfile(a)))
    ELSE WrapQuery(nm, a, StartQuery(FallbackQuery(nm, a), sid, iurl))

\* variant of MembersQuery: the limit of the caller is not put in the query
MembersQuery_DefaultLimit(a) ==
    <<"\n", " ">> \o kwSELECT \o SP \o <<"P", "r", "o", "f">> \o SP
    \o kwFROM \o SP \o <<"M", "e", "m">> \o SP
    \o <<"WHERE SegmentId__c = '", a["segment_id"], "'">> \o SP
    \o kwLIMIT \o SP \o <<"100">> \o <<"\n", " ">>

\* the query of _get_segment_members for arguments a, lines 428-432 and
\* 804-810
MembersQuery(a) ==
    <<"\n", " ">> \o kwSELECT \o SP \o <<"P", "r", "o", "f">> \o SP
    \o kwFROM \o SP \o <<"M", "e", "m">> \o SP
    \o <<"WHERE SegmentId__c = '", a["segment_id"], "'">> \o SP
    \o kwLIMIT \o SP \o <<ToString(Get(a, "limit", 100))>> \o <<"\n", " ">>

\* the query text a query tool hands to _query_data_cloud (lines 419,
\* 428-432)
QueryOf(nm, a) ==
    IF nm = "get_segment_members" THEN MembersQuery(a) ELSE a["query"]

\* lines 418-508: the if/elif chain of call_tool up to the first await of
\* the handler it selects
Dispatch(nm, a, sid, iurl) ==
    IF nm \notin KnownTools THEN Finish(ErrorOutcome(<<"Unknown tool: ", nm>>))
    ELSE IF MissingKey(nm, a) # None
    THEN Finish(ErrorOutcome(<<"'", MissingKey(nm, a), "'">>))
    ELSE IF nm \in QueryTools
    THEN WrapQuery(nm, a, StartQuery(QueryOf(nm, a), sid, iurl))
    ELSE IF nm \in MutatingTools \cup ActivationTools
    THEN StartMutating(nm, a, sid, iurl)
    ELSE StartConnect(nm, a, sid, iurl)

-----------------------------------------------------------------------------
(* _authenticate, lines 555-601 *)

login_url == <<"https://login.salesforce.com/services/Soap/u/", api_version>>

\* server_url.split('/services/')[0], line 599, for a URL given as the
\* pieces around its first "/services/"
InstanceUrlOf(server_url) ==
    IF server_url[1] = "/services/" THEN "" ELSE server_url[1]

\* lines 580-599: what the login answer does to the credential and whether
\* _authenticate raises; the two assignments are separate statements
Authenticate(r, sid, iurl) ==
    IF r.kind = "exc"
    THEN [ok |-> FALSE, msg |-> <<r.text>>, sid |-> sid, iurl |-> iurl]
    ELSE IF r.status # 200
    THEN [ok |-> FALSE, msg |-> <<"Login failed with status ", ToString(r.status)>>,
          sid |-> sid, iurl |-> iurl]
    ELSE IF "sessionId" \notin DOMAIN r.body \/ "serverUrl" \notin DOMAIN r.body
    THEN [ok |-> FALSE,
          msg |-> <<"Failed to extract session ID or server URL from login response">>,
          sid |-> sid, iurl |-> iurl]
    ELSE IF r.body["serverUrl"] = <<>>
    THEN [ok |-> FALSE,
          msg |-> <<"'NoneType' object has no attribute 'split'">>,
          sid |-> r.body["sessionId"], iurl |-> iurl]
    ELSE [ok |-> TRUE, msg |-> <<>>, sid |-> r.body["sessionId"],
          iurl |-> InstanceUrlOf(r.body["serverUrl"])]

-----------------------------------------------------------------------------
(* What the environment may give: tool calls and platform answers *)

PageRows == {<<"r1">>, <<"r2">>}
BatchIds == {"b1"}

ToolNames == KnownTools \cup {"no_such_tool"}

QueryTexts == {txtTopUpper}

ArgumentSets(nm) ==
    CASE nm = "query_data_cloud" ->
            {EmptyDict} \cup {[query |-> t] : t \in QueryTexts}
      [] nm = "activate_segment" ->
            {[segment_id |-> "seg1"],
             [segment_id |-> "seg1", activation_target |-> "email"]}
      [] nm = "ingest_data_cloud" ->
            {[object_name |-> "Obj__dlm", data |-> <<"rec1", "rec2">>]}
      [] nm = "real_time_segment_events" ->
            {[segment_id |-> "seg1", event_types |-> <<"entered">>]}
      [] nm = "manage_profiles" ->
            {[operation |-> "get_identity_graph"], [operation |-> "merge"]}
      [] nm \in {"get_connect_segment_details", "get_connect_segment_members"} ->
            {[segment_id |-> "seg1"]}
      [] nm = "search_connect_segments" -> {[search_term |-> "vip"]}
      [] nm = "get_segment_members" ->
            {[segment_id |-> "seg1", limit |-> n] : n \in 1..MaxRows}
      [] nm = "get_segment_activations" ->
            {EmptyDict, [segment_id |-> "seg1", activation_type |-> "sms"]}
      [] OTHER -> {EmptyDict}

\* answers that are not a success
Failures ==
    {Http(404, EmptyDict, "HTTP 404 Not Found"),
     Http(401, EmptyDict, "Session expired or invalid"),
     Http(500, EmptyDict, "Internal Server Error"),
     Http(500, EmptyDict, "HTTP 404 Not Found"),
     Http(500, EmptyDict, "URL No Longer Exists"),
     Exc("Internal Server Error"),
     Exc("HTTP 404 Not Found")}

\* JSON objects of the analytics (v2) API: data and nextBatchId, each optional
V2Bodies ==
    {d @@ b : d \in {EmptyDict} \cup {[data |-> rows] : rows \in PageRows},
              b \in {EmptyDict}
                    \cup {[nextBatchId |-> id] : id \in BatchIds \cup {None}}}

\* JSON objects of the legacy API: records, done and nextRecordsUrl, each
\* optional; a next URL is relative or absolute
NextUrls == {<<"/", "services/data/query/01g-2000">>,
             <<"https://other.example", "/services/data/query/01g-2000">>}

SoqlBodies ==
    {rc @@ dn @@ nu :
        rc \in {EmptyDict} \cup {[records |-> rows] : rows \in PageRows},
        dn \in {EmptyDict} \cup {[done |-> b] : b \in BOOLEAN},
        nu \in {EmptyDict} \cup {[nextRecordsUrl |-> u] : u \in NextUrls}}

V2Answers == {Http(200, b, "") : b \in V2Bodies} \cup Failures
SoqlAnswers == {Http(200, b, "") : b \in SoqlBodies} \cup Failures

\* the answers to the query of a fallback tool are drawn from smaller sets:
\* the pagination is explored in full under query_data_cloud
FallbackV2Answers ==
    {Http(200, [data |-> <<"r1">>], ""),
     Http(200, [data |-> <<"r2">>, nextBatchId |-> "b1"], ""),
     Http(404, EmptyDict, "HTTP 404 Not Found"),
     Http(500, EmptyDict, "Internal Server Error"),
     Exc("HTTP 404 Not Found")}

FallbackSoqlAnswers ==
    {Http(200, [records |-> <<"r1">>, done |-> TRUE], ""),
     Http(200, [records |-> <<"r2">>, done |-> FALSE,
                nextRecordsUrl |-> <<"/", "services/data/query/01g-2000">>], ""),
     Http(404, EmptyDict, "HTTP 404 Not Found")}

V2AnswersFor(nm) ==
    IF nm = "query_data_cloud" THEN V2Answers ELSE FallbackV2Answers

SoqlAnswersFor(nm) ==
    IF nm = "query_data_cloud" THEN SoqlAnswers ELSE FallbackSoqlAnswers

\* the body a Connect endpoint answers a success with
ConnectBody == [id |-> "srv1", segments |-> <<"r1">>]
ConnectAnswers == {Http(st, ConnectBody, "") : st \in {200, 201}} \cup Failures

\* login answers: each of the two elements missing, present with a text, or
\* present and empty (its .text is None); server URLs are given as the
\* pieces around "/services/", and <<>> is the text of an empty element
Tokens == {"tok1"}
ServerUrls == {<<"https://na1.example", "/services/", "Soap/u/59.0">>}
LoginBodies ==
    {si @@ su :
        si \in {EmptyDict} \cup {[sessionId |-> t] : t \in Tokens \cup {None}},
        su \in {EmptyDict} \cup {[serverUrl |-> u] : u \in ServerUrls \cup {<<>>}}}
LoginAnswers ==
    {Http(200, b, "") : b \in LoginBodies}
    \cup {Http(500, EmptyDict, "Internal Server Error"),
          Exc("Internal Server Error")}

\* the rows a page carries in the given field
PageRowsOf(r, field) ==
    IF r.kind = "http" /\ r.status = 200 THEN Get(r.body, field, <<>>)
    ELSE <<>>

-----------------------------------------------------------------------------
(* Actions: one per resumption of a coroutine *)

RECURSIVE LogAll(_, _)
LogAll(h, es) == IF es = <<>> THEN h ELSE LogAll(Log(h, Head(es)), Tail(es))

\* the coroutine of call p runs the step st after having received answer e
Resume(p, st, e) ==
    /\ pc' = [pc EXCEPT ![p] = st.pc]
    /\ loc' = [loc EXCEPT ![p] = st.loc]
    /\ outcome' = [outcome EXCEPT ![p] = st.out]
    /\ reqs' = [reqs EXCEPT ![p] = LogAll(@, st.send)]
    /\ resps' = [resps EXCEPT ![p] = Log(@, e)]

\* variant of NeedsLogin: every call authenticates again
NeedsLogin_Always(sid) == TRUE

\* if not self.session_id, line 415
NeedsLogin(sid) == ~TruthyStr(sid)

\* call_tool(name, arguments) up to its first await, lines 411-416
CallTool(p, nm, a) ==
    /\ pc[p] \in {"idle", "done"}
    /\ name' = [name EXCEPT ![p] = nm]
    /\ arguments' = [arguments EXCEPT ![p] = a]
    /\ resps' = [resps EXCEPT ![p] = <<>>]
    /\ prior' = [prior EXCEPT ![p] = @ \/ SeenGone]
    /\ IF NeedsLogin(session_id)
       THEN /\ pc' = [pc EXCEPT ![p] = "login"]
            /\ loc' = [loc EXCEPT ![p] = NoLoc]
            /\ outcome' = [outcome EXCEPT ![p] = NoOutcome]
            /\ reqs' = [reqs EXCEPT ![p] =
                          <<Req("login", "POST", login_url, None, <<>>)>>]
       ELSE LET st == Dispatch(nm, a, session_id, instance_url)
            IN /\ pc' = [pc EXCEPT ![p] = st.pc]
               /\ loc' = [loc EXCEPT ![p] = st.loc]
               /\ outcome' = [outcome EXCEPT ![p] = st.out]
               /\ reqs' = [reqs EXCEPT ![p] = st.send]
    /\ UNCHANGED <<cred, conv>>

\* the login answer arrives: _authenticate ends and call_tool goes on to the
\* handler, or its except clause returns the error
LoginResp(p, r) ==
    /\ pc[p] = "login"
    /\ LET au == Authenticate(r, session_id, instance_url)
       IN /\ session_id' = au.sid
          /\ instance_url' = au.iurl
          /\ Resume(p, IF au.ok
                       THEN Dispatch(name[p], arguments[p], au.sid, au.iurl)
                       ELSE Finish(ErrorOutcome(au.msg)),
                    Resp("login", r))
    /\ UNCHANGED <<name, arguments, prior, conv>>

\* the URL of the request call p awaits the answer to
InFlightUrl(p) ==
    CASE pc[p] \in {"v2_post", "v2_batch"} -> loc[p].dc_url
      [] pc[p] = "soql_get" -> loc[p].next_url
      [] OTHER -> reqs[p][Len(reqs[p])].url

\* the URL names a host: it was not built from an absent or empty base URL
HasHost(url) == url # <<>> /\ url[1] \notin {None, ""}

\* session.get/post on a URL without a host raises (aiohttp's InvalidURL,
\* whose text is the URL) and nothing reaches the platform; any other
\* request may get any answer
Deliverable(p, r) ==
    HasHost(InFlightUrl(p)) \/ (r.kind = "exc" /\ ~IsUnavailable(<<r.text>>))

\* the mock platform serves a page that carries rows only within MaxRows
WithinRows(p, rows) == Len(loc[p].all_records) + Len(rows) <= MaxRows

V2PostResp(p, r) ==
    /\ pc[p] = "v2_post"
    /\ Deliverable(p, r)
    /\ WithinRows(p, PageRowsOf(r, "data"))
    /\ Resume(p, WrapQuery(name[p], arguments[p], OnV2Post(loc[p], r, instance_url)),
              Resp("v2", r))
    /\ UNCHANGED <<cred, name, arguments, prior, conv>>

V2BatchResp(p, r) ==
    /\ pc[p] = "v2_batch"
    /\ Deliverable(p, r)
    /\ WithinRows(p, PageRowsOf(r, "data"))
    /\ Resume(p, WrapQuery(name[p], arguments[p], OnV2Batch(loc[p], r, instance_url)),
              Resp("v2", r))
    /\ UNCHANGED <<cred, name, arguments, prior, conv>>

SoqlResp(p, r) ==
    /\ pc[p] = "soql_get"
    /\ Deliverable(p, r)
    /\ WithinRows(p, PageRowsOf(r, "records"))
    /\ Resume(p, WrapQuery(name[p], arguments[p], OnSoql(loc[p], r, instance_url)),
              Resp("soql", r))
    /\ UNCHANGED <<cred, name, arguments, prior, conv>>

MutatingResp(p, r) ==
    /\ pc[p] = "mut_post"
    /\ Deliverable(p, r)
    /\ Resume(p, OnMutating(name[p], arguments[p], r), Resp("connect", r))
    /\ UNCHANGED <<cred, name, arguments, prior, conv>>

ConnectResp(p, r) ==
    /\ pc[p] = "connect_req"
    /\ Deliverable(p, r)
    /\ Resume(p, OnConnect(name[p], arguments[p], r, session_id, instance_url),
              Resp("connect", r))
    /\ UNCHANGED <<cred, name, arguments, prior, conv>>

\* a tool call starts, or the answer it awaits arrives
ProcStep(p) ==
    \/ \E nm \in ToolNames : \E a \in ArgumentSets(nm) : CallTool(p, nm, a)
    \/ \E r \in LoginAnswers : LoginResp(p, r)
    \/ \E r \in V2AnswersFor(name[p]) : V2PostResp(p, r)
    \/ \E r \in V2AnswersFor(name[p]) : V2BatchResp(p, r)
    \/ \E r \in SoqlAnswersFor(name[p]) : SoqlResp(p, r)
    \/ \E r \in ConnectAnswers : MutatingResp(p, r)
    \/ \E r \in ConnectAnswers : ConnectResp(p, r)

\* tool calls are served one at a time
Next == \E p \in {1} : ProcStep(p)

Spec == Init /\ [][Next]_vars

\* every request is answered (or fails) and the event loop resumes the
\* coroutine that awaits it
FairSpec == Spec /\ WF_vars(Next)

-----------------------------------------------------------------------------
(* Concurrent tool calls: the event loop interleaves the coroutines of
   several call_tool invocations at their await points; the platform's
   answers are drawn from smaller sets *)

ConcurrentTools == {"query_data_cloud", "activate_segment",
                    "get_connect_segments"}

\* two logins that succeed with different credentials, and one that fails
ConcurrentLogins ==
    {Http(200, [sessionId |-> "tok1",
                serverUrl |-> <<"https://na1.example", "/services/", "Soap/u/59.0">>], ""),
     Http(200, [sessionId |-> "tok2",
                serverUrl |-> <<"https://na2.example", "/services/", "Soap/u/59.0">>], ""),
     Http(500, EmptyDict, "Internal Server Error")}

ConcurrentV2 ==
    {Http(200, [data |-> <<"r1">>], ""),
     Http(200, [data |-> <<"r1">>, nextBatchId |-> "b1"], ""),
     Http(404, EmptyDict, "HTTP 404 Not Found")}

ConcurrentSoql ==
    {Http(200, [records |-> <<"r2">>, done |-> TRUE], ""),
     Http(200, [records |-> <<"r2">>, done |-> FALSE,
                nextRecordsUrl |-> <<"/", "services/data/query/01g-2000">>], ""),
     Http(500, EmptyDict, "Internal Server Error")}

ConcurrentConnect ==
    {Http(200, ConnectBody, ""), Http(404, EmptyDict, "HTTP 404 Not Found")}

ConcurrentStep(p) ==
    \/ \E nm \in ConcurrentTools :
          \E a \in {x \in ArgumentSets(nm) : MissingKey(nm, x) = None} :
              CallTool(p, nm, a)
    \/ \E r \in ConcurrentLogins : LoginResp(p, r)
    \/ \E r \in ConcurrentV2 : V2PostResp(p, r)
    \/ \E r \in ConcurrentV2 : V2BatchResp(p, r)
    \/ \E r \in ConcurrentSoql : SoqlResp(p, r)
    \/ \E r \in ConcurrentConnect : MutatingResp(p, r)
    \/ \E r \in ConcurrentConnect : ConnectResp(p, r)

\* any call may take the next step
ConcurrentNext == \E p \in Procs : ConcurrentStep(p)

ConcurrentSpec == Init /\ [][ConcurrentNext]_vars

\* Concurrent queries: every coroutine runs one query_data_cloud invocation;
\* the v2 API serves row r1 and the legacy API row r2
IsolationLogins ==
    {Http(200, [sessionId |-> "tok1",
                serverUrl |-> <<"https://na1.example", "/services/", "Soap/u/59.0">>], "")}

IsolationV2 ==
    {Http(200, [data |-> <<"r1">>], ""),
     Http(200, [data |-> <<"r1">>, nextBatchId |-> "b1"], ""),
     Http(404, EmptyDict, "HTTP 404 Not Found")}

IsolationSoql ==
    {Http(200, [records |-> <<"r2">>, done |-> TRUE], ""),
     Http(200, [records |-> <<"r2">>, done |-> FALSE,
                nextRecordsUrl |-> <<"/", "services/data/query/01g-2000">>], "")}

IsolationStep(p) ==
    \/ /\ pc[p] = "idle"
       /\ \E t \in QueryTexts : CallTool(p, "query_data_cloud", [query |-> t])
    \/ \E r \in IsolationLogins : LoginResp(p, r)
    \/ \E r \in IsolationV2 : V2PostResp(p, r)
    \/ \E r \in IsolationV2 : V2BatchResp(p, r)
    \/ \E r \in IsolationSoql : SoqlResp(p, r)

IsolationNext == \E p \in Procs : IsolationStep(p)

IsolationSpec == Init /\ [][IsolationNext]_vars

-----------------------------------------------------------------------------
(* The dialect translation on its own: _convert_sql_to_soql applied to every
   text of a bounded set *)

\* tokens between TOP and FROM, tokens after FROM, tokens of a free text
MaxMid == 3
MaxRest == 2
MaxFree == 3

lcSelect == <<"s", "e", "l", "e", "c", "t">>
lcTop == <<"t", "o", "p">>
lcFrom == <<"f", "r", "o", "m">>

SeqsUpTo(S, lo, hi) == UNION {[1..n -> S] : n \in lo..hi}

MidTokens == {<<"5">>, <<"a">>, <<"b">>, kwTOP}
RestTokens == {<<"t">>, <<"x">>, kwFROM}
FreeTokens == {kwSELECT, kwTOP, kwFROM, kwLIMIT, <<"5">>, <<"a">>}

\* texts "select top <mid> from <rest>" with the keywords in either case,
\* and free texts
ConvInputs ==
    {Join(SP, <<sel, top>> \o mid \o <<from>> \o rest) :
        sel \in {kwSELECT, lcSelect}, top \in {kwTOP, lcTop},
        mid \in SeqsUpTo(MidTokens, 0, MaxMid),
        from \in {kwFROM, lcFrom},
        rest \in SeqsUpTo(RestTokens, 1, MaxRest)}
    \cup {Join(SP, ws) : ws \in SeqsUpTo(FreeTokens, 1, MaxFree)}

ConvInit ==
    /\ session_id = None
    /\ instance_url = None
    /\ pc = [p \in Procs |-> "idle"]
    /\ name = [p \in Procs |-> None]
    /\ arguments = [p \in Procs |-> EmptyDict]
    /\ loc = [p \in Procs |-> NoLoc]
    /\ outcome = [p \in Procs |-> NoOutcome]
    /\ reqs = [p \in Procs |-> <<>>]
    /\ resps = [p \in Procs |-> <<>>]
    /\ prior = [p \in Procs |-> FALSE]
    /\ cq \in ConvInputs
    /\ cs = <<>>

\* soql_query = self._convert_sql_to_soql(query)
Convert ==
    /\ cs = <<>>
    /\ cs' = convert_sql_to_soql(cq)
    /\ UNCHANGED <<cred, pc, name, arguments, loc, outcome, reqs, resps, prior, cq>>

ConvNext == Convert

ConvSpec == ConvInit /\ [][ConvNext]_vars

-----------------------------------------------------------------------------
(* Reading the histories of one tool call *)

IsApi(e) == e.api # "login"

\* the requests sent to the platform APIs (the login request left out) and
\* the answers to them, in order
ApiReqs(p) == SelectSeq(reqs[p], IsApi)
ApiResps(p) == SelectSeq(resps[p], IsApi)

\* the histories hold everything the call sent and received
LogComplete(p) == Len(reqs[p]) < MaxLog /\ Len(resps[p]) < MaxLog

Done(p) == pc[p] = "done"

IsOk(e) == e.kind = "http" /\ e.status = 200
Is404(e) == e.kind = "http" /\ e.status = 404

\* the rows the pages h[from..to] carry in the given field, concatenated
RowsFrom(h, from, to, field) ==
    Flatten([i \in 1..(to - from + 1) |-> Get(h[from + i - 1].body, field, <<>>)])

\* a result that call_tool returned as JSON and that carries none of the
\* markers of a fabricated or failed result
Genuine(out) ==
    /\ out.kind = "json"
    /\ "status" \notin DOMAIN out.value
    /\ "error" \notin DOMAIN out.value
    /\ "note" \notin DOMAIN out.value

-----------------------------------------------------------------------------
(* C1..C5: the fallback chain *)

\* the v2 target answered 404 and every legacy request was answered 200
V2GoneLegacyOk(p) ==
    LET h == ApiResps(p)
    IN /\ name[p] = "query_data_cloud"
       /\ Done(p) /\ LogComplete(p)
       /\ Len(h) >= 2
       /\ h[1].api = "v2" /\ Is404(h[1])
       /\ \A i \in 2..Len(h) : h[i].api = "soql" /\ IsOk(h[i])

\* C1: when the analytics (v2) target answers 404 and the legacy target
\* answers 200 with rows R, the query returns exactly R in the legacy shape
\* (a "records" field, no "data" field), with totalSize = |R|, and carries no
\* marker of a fabricated or failed result.
C1_FallbackOrdering ==
    \A p \in Procs :
        V2GoneLegacyOk(p) =>
            LET h == ApiResps(p)
            IN /\ Genuine(outcome[p])
               /\ "records" \in DOMAIN outcome[p].value
               /\ "data" \notin DOMAIN outcome[p].value
               /\ outcome[p].value["records"] = RowsFrom(h, 2, Len(h), "records")
               /\ outcome[p].value["totalSize"] = Len(RowsFrom(h, 2, Len(h), "records"))

C1_Witness ==
    \E p \in Procs :
        /\ V2GoneLegacyOk(p)
        /\ Len(ApiResps(p)) = 2
        /\ outcome[p].value["records"] = <<"r1">>

\* the answer to the initial v2 request was a failure other than 404
V2HardFailure(p) ==
    LET h == ApiResps(p)
    IN /\ name[p] = "query_data_cloud"
       /\ Len(h) >= 1
       /\ h[1].api = "v2"
       /\ (h[1].kind = "exc" \/ h[1].status \notin {200, 404})

\* the message of the exception a failed v2 answer becomes (lines 661-664)
V2FailureMsg(e) ==
    IF e.kind = "exc" THEN <<e.text>>
    ELSE <<"Data Cloud Query failed: ", e.text>>

AllGone(p) ==
    LET h == ApiResps(p)
    IN /\ Done(p) /\ LogComplete(p)
       /\ Len(h) >= 2
       /\ \A i \in 1..Len(h) : Is404(h[i])
       /\ h[Len(h)].api = "soql"

C3_WitnessConnect ==
    \E p \in Procs : AllGone(p) /\ name[p] = "get_connect_segments"

\* the single target of a mutating tool answered 500
MutatingGot500(p) ==
    /\ name[p] \in {"activate_segment", "ingest_data_cloud"}
    /\ Len(ApiResps(p)) = 1
    /\ ApiResps(p)[1].kind = "http" /\ ApiResps(p)[1].status = 500

C5_MutatingSentOnce ==
    \A p \in Procs : name[p] \in MutatingTools => Len(ApiReqs(p)) <= 1

C5_Witness ==
    \E p \in Procs :
        /\ name[p] = "real_time_segment_events"
        /\ Done(p)
        /\ Len(ApiReqs(p)) = 1
        /\ Len(ApiResps(p)) = 1 /\ ~IsOk(ApiResps(p)[1])

-----------------------------------------------------------------------------
(* C6..C9: pagination *)

\* the continuation a v2 page carries: a non-empty batch id, or none
HasBatch(e) == TruthyStr(Get(e.body, "nextBatchId", None))

\* the v2 target answered a chain of pages, every follow-up with 200, each
\* page but the last carrying a non-empty nextBatchId
V2Chain(p) ==
    LET h == ApiResps(p)
    IN /\ name[p] = "query_data_cloud"
       /\ LogComplete(p)
       /\ Len(h) >= 1
       /\ \A i \in 1..Len(h) : h[i].api = "v2" /\ IsOk(h[i])
       /\ \A i \in 1..(Len(h) - 1) : HasBatch(h[i])
       /\ ~HasBatch(h[Len(h)])

\* C6: for a chain of k+1 analytics pages linked by non-empty nextBatchId
\* values and ending with an absent or null one, every follow-up answered
\* 200, the query returns the concatenation of all pages' data rows in the
\* order received (nothing reordered, nothing removed) and issues exactly k
\* follow-up requests, each a GET for the batch id of the page before it.
C6_BatchPagination ==
    \A p \in Procs :
        V2Chain(p) =>
            LET h == ApiResps(p)
                q == ApiReqs(p)
            IN /\ Done(p)
               /\ Genuine(outcome[p])
               /\ outcome[p].value["data"] = RowsFrom(h, 1, Len(h), "data")
               /\ Len(q) = Len(h)
               /\ q[1].method = "POST"
               /\ \A i \in 2..Len(q) :
                      /\ q[i].method = "GET"
                      /\ q[i].url = q[1].url
                                    \o <<"?batchId=", h[i - 1].body["nextBatchId"]>>

C6_Witness ==
    \E p \in Procs :
        /\ V2Chain(p)
        /\ Len(ApiResps(p)) = 3
        /\ outcome[p].value["data"] = <<"r2", "r1">>

\* the v2 target answered one or more pages and then failed a follow-up with
\* a status that is not 200
V2FollowUpFailed(p) ==
    LET h == ApiResps(p)
    IN /\ name[p] = "query_data_cloud"
       /\ LogComplete(p)
       /\ Len(h) >= 2
       /\ \A i \in 1..Len(h) : h[i].api = "v2"
       /\ \A i \in 1..(Len(h) - 1) : IsOk(h[i])
       /\ h[Len(h)].kind = "http" /\ h[Len(h)].status # 200

\* C8: if a batchId follow-up answers with a non-success status, the query
\* stops paginating, sends no further request, and returns successfully with
\* all rows of the pages received before it.
C8_FailedFollowUpEndsPages ==
    \A p \in Procs :
        V2FollowUpFailed(p) =>
            LET h == ApiResps(p)
            IN /\ Done(p)
               /\ Genuine(outcome[p])
               /\ outcome[p].value["data"] = RowsFrom(h, 1, Len(h) - 1, "data")
               /\ Len(ApiReqs(p)) = Len(h)

C8_Witness ==
    \E p \in Procs :
        /\ V2FollowUpFailed(p)
        /\ Len(ApiResps(p)) = 3
        /\ ApiResps(p)[3].status = 500
        /\ outcome[p].value["data"] = <<"r1", "r2">>

\* a legacy page asks for a follow-up: done is false and nextRecordsUrl is
\* there
AsksMore(body) ==
    /\ "done" \in DOMAIN body /\ body["done"] = FALSE
    /\ "nextRecordsUrl" \in DOMAIN body

\* the answers of one API among the answers of a call
OfV2(e) == e.api = "v2"
OfSoql(e) == e.api = "soql"

\* C9: on the legacy API the query appends each page's records in the order
\* received to the rows accumulated so far, and after a page answered 200 it
\* issues a follow-up GET exactly when the page has done false and a
\* nextRecordsUrl, to that URL prefixed with the instance base URL when it
\* is relative; after any other page it sends nothing further and returns.
C9_NextUrlPagination ==
    \A p \in Procs :
        LogComplete(p) =>
            /\ \A i \in 1..Len(resps[p]) :
                  (resps[p][i].api = "soql" /\ IsOk(resps[p][i])) =>
                      LET body == resps[p][i].body
                          u == body["nextRecordsUrl"]
                      IN IF AsksMore(body)
                         THEN /\ Len(reqs[p]) >= i + 1
                              /\ reqs[p][i + 1] =
                                    Req("soql", "GET",
                                        IF u[1] = "/" THEN <<instance_url>> \o u
                                        ELSE u,
                                        reqs[p][i].token, <<>>)
                         ELSE /\ Len(reqs[p]) = i
                              /\ Done(p)
                              /\ outcome[p].kind = "json"
            /\ (Done(p) /\ name[p] = "query_data_cloud"
                /\ Len(resps[p]) >= 1 /\ resps[p][Len(resps[p])].api = "soql"
                /\ IsOk(resps[p][Len(resps[p])])) =>
                  LET v2 == SelectSeq(resps[p], OfV2)
                      sq == SelectSeq(resps[p], OfSoql)
                  IN outcome[p].value["records"] =
                        RowsFrom(v2, 1, Len(v2), "data")
                        \o RowsFrom(sq, 1, Len(sq), "records")

C9_Witness ==
    \E p \in Procs :
        /\ LogComplete(p) /\ Done(p) /\ name[p] = "query_data_cloud"
        /\ Len(resps[p]) = 3
        /\ Is404(resps[p][1])
        /\ resps[p][2].api = "soql" /\ IsOk(resps[p][2])
        /\ AsksMore(resps[p][2].body)
        /\ resps[p][2].body["nextRecordsUrl"][1] = "/"
        /\ resps[p][3].api = "soql" /\ IsOk(resps[p][3])
        /\ outcome[p].kind = "json"
        /\ outcome[p].value["records"] = <<"r1", "r2">>
        /\ reqs[p][3].url[1] = instance_url

-----------------------------------------------------------------------------
(* C10: the translation of TOP *)

NumTokens == {<<"5">>}
ColTokens == {<<"a">>, <<"b">>}
TableTokens == {<<"t">>, <<"x">>}

\* C10: for every input "SELECT TOP n cols FROM rest" (n a number token,
\* cols one or more column tokens, rest without a further " FROM "),
\* _convert_sql_to_soql returns "SELECT cols FROM rest LIMIT n".
C10_TopRewrite ==
    \A n \in NumTokens :
      \A cols \in SeqsUpTo(ColTokens, 1, MaxMid - 1) :
        \A rest \in SeqsUpTo(TableTokens, 1, MaxRest) :
            (/\ cq = Join(SP, <<kwSELECT, kwTOP, n>> \o cols \o <<kwFROM>> \o rest)
             /\ cs # <<>>)
            => cs = Join(SP, <<kwSELECT>> \o cols \o <<kwFROM>> \o rest
                             \o <<kwLIMIT, n>>)

-----------------------------------------------------------------------------
(* C11, C12: the dialect translation outside the upper-case TOP form *)

\* the text has the form "SELECT TOP n cols FROM rest", read generously: the
\* keywords in either letter case, n any token, one or more column tokens,
\* and exactly one " FROM " in the text
TopForm(q) ==
    LET ws == Split(q, SP)
    IN /\ Len(ws) >= 6
       /\ Upper(ws[1]) = kwSELECT
       /\ Upper(ws[2]) = kwTOP
       /\ Len(Split(Upper(q), SP \o kwFROM \o SP)) = 2
       /\ \E i \in 5..(Len(ws) - 1) :
              /\ Upper(ws[i]) = kwFROM
              /\ \A j \in 1..(i - 1) : Upper(ws[j]) # kwFROM

\* C11: for every input that is not of the form "SELECT TOP n cols FROM
\* rest" (no " FROM ", more than one " FROM ", too few tokens before FROM,
\* or no SELECT TOP prefix), _convert_sql_to_soql returns the input text
\* unmodified.
C11_IdentityElsewhere ==
    (cs # <<>> /\ ~TopForm(cq)) => cs = cq

\* C12: an input "select top n cols from rest" whose keywords are not all in
\* upper case is rewritten to the LIMIT form "SELECT cols FROM rest LIMIT n"
\* (compared without regard to letter case), as the upper-case input is
\* meant to be.
C12_CaseInsensitive ==
    \A sel \in {kwSELECT, lcSelect}, top \in {kwTOP, lcTop},
       from \in {kwFROM, lcFrom} :
      \A n \in NumTokens :
        \A cols \in SeqsUpTo(ColTokens, 1, MaxMid - 1) :
          \A rest \in SeqsUpTo(TableTokens, 1, MaxRest) :
            (/\ <<sel, top, from>> # <<kwSELECT, kwTOP, kwFROM>>
             /\ cq = Join(SP, <<sel, top, n>> \o cols \o <<from>> \o rest)
             /\ cs # <<>>)
            => Upper(cs) = Upper(Join(SP, <<kwSELECT>> \o cols \o <<kwFROM>>
                                          \o rest \o <<kwLIMIT, n>>))

-----------------------------------------------------------------------------
(* C13..C17: the credential *)

\* the calls whose login request is in flight
LoggingIn == {p \in Procs : pc[p] = "login"}

\* C13: under any interleaving of concurrent tool calls that start while the
\* credential is absent, at most one login request is in flight at a time.
C13_SingleFlightLogin == Cardinality(LoggingIn) <= 1

\* C14: no request other than the login is sent while the credential is
\* absent: every platform API request carries a non-empty token and is
\* addressed to a non-empty base URL.
C14_CredentialBeforeRequest ==
    \A p \in Procs :
        \A i \in 1..Len(reqs[p]) :
            IsApi(reqs[p][i]) =>
                /\ TruthyStr(reqs[p][i].token)
                /\ HasHost(reqs[p][i].url)

\* the call names a known tool and lacks the argument MissingKey gives
LacksArgument(p) ==
    /\ pc[p] # "idle"
    /\ name[p] \in KnownTools
    /\ MissingKey(name[p], arguments[p]) # None

\* C15: a tool call that lacks a required argument sends no request at all,
\* the login request included, and ends with an error that names the
\* missing field.
C15_ValidationFirst ==
    \A p \in Procs :
        LacksArgument(p) =>
            /\ reqs[p] = <<>>
            /\ Done(p)
            /\ outcome[p].kind = "error"
            /\ \E i \in 1..Len(outcome[p].text) :
                   outcome[p].text[i] = MissingKey(name[p], arguments[p])

\* the call, well-formed, ended with an error on the login answer alone:
\* _authenticate raised
AuthFailed(p) ==
    /\ Done(p)
    /\ name[p] \in KnownTools
    /\ MissingKey(name[p], arguments[p]) = None
    /\ Len(resps[p]) = 1
    /\ resps[p][1].api = "login"
    /\ outcome[p].kind = "error"

\* C16: when the credential acquisition of a tool call fails, the call ends
\* with an error having sent no platform API request, the credential stays
\* absent, and the next tool call authenticates again.
C16_AuthFailureFatalOnce ==
    [][\A p \in Procs :
          /\ AuthFailed(p) =>
                (ApiReqs(p) = <<>> /\ ~TruthyStr(session_id))
          /\ (AuthFailed(p) /\ pc'[p] # "done") => pc'[p] = "login"]_vars

\* the login answer has a status other than 200, or lacks the session id or
\* the server URL (the element is missing or empty)
BadLoginAnswer(e) ==
    /\ e.api = "login"
    /\ e.kind = "http"
    /\ \/ e.status # 200
       \/ Get(e.body, "sessionId", None) = None
       \/ Get(e.body, "serverUrl", <<>>) = <<>>

\* C17: on a login answer with a non-200 status or without one of the two
\* fields, _authenticate fails (the call ends with an error, nothing but the
\* login request sent) and session_id and instance_url are what they were.
C17_AuthFailureLeavesCredential ==
    [][\A p \in Procs :
          (/\ pc[p] = "login"
           /\ pc'[p] # "login"
           /\ BadLoginAnswer(resps'[p][Len(resps'[p])]))
          => /\ pc'[p] = "done"
             /\ outcome'[p].kind = "error"
             /\ Len(reqs'[p]) = 1
             /\ session_id' = session_id
             /\ instance_url' = instance_url]_vars

-----------------------------------------------------------------------------
(* C18: the dispatch entry point *)

AwaitPoints == {"login", "v2_post", "v2_batch", "soql_get", "mut_post",
                "connect_req"}

\* the call ended on an answer that was a transport exception, which no
\* handler of the tool catches
EndedOnException(p) ==
    /\ Done(p) /\ LogComplete(p)
    /\ resps[p] # <<>>
    /\ resps[p][Len(resps[p])].kind = "exc"
    /\ \/ name[p] \in QueryTools \cup MutatingTools
       \/ resps[p][Len(resps[p])].api \in {"login", "connect"}

\* the call ended on a login answer on which _authenticate raises: a status
\* other than 200, a missing element, or a server URL without text
LoginRejected(p) ==
    /\ Done(p)
    /\ Len(resps[p]) = 1
    /\ resps[p][1].api = "login"
    /\ resps[p][1].kind = "http"
    /\ \/ resps[p][1].status # 200
       \/ "sessionId" \notin DOMAIN resps[p][1].body
       \/ Get(resps[p][1].body, "serverUrl", <<>>) = <<>>

\* C18: call_tool always returns a response: a call is suspended at an await
\* point or has returned either the JSON text of a result or a single text
\* beginning with "Error: "; an unknown tool, a missing argument, a failed
\* authentication and an exception of the downstream operation are all
\* returned as such an error text.
C18_DispatchNeverCrashes ==
    \A p \in Procs :
        /\ pc[p] \in {"idle", "done"} \cup AwaitPoints
        /\ Done(p) =>
              /\ outcome[p].kind \in {"json", "error"}
              /\ outcome[p].kind = "error" =>
                    (Len(outcome[p].text) >= 2 /\ outcome[p].text[1] = "Error: ")
              /\ (\/ name[p] \notin KnownTools
                  \/ MissingKey(name[p], arguments[p]) # None
                  \/ LoginRejected(p)
                  \/ EndedOnException(p)) => outcome[p].kind = "error"

\* an unknown tool, called with the credential acquired, was answered with
\* an error text
C18_Witness ==
    \E p \in Procs :
        /\ Done(p)
        /\ name[p] = "no_such_tool"
        /\ TruthyStr(session_id)
        /\ outcome[p] = ErrorOutcome(<<"Unknown tool: ", "no_such_tool">>)

-----------------------------------------------------------------------------
(* C19, C20: the shape of the results *)

\* the rows of one answer of the query path: data of a v2 page, records of a
\* legacy page, nothing of any other answer
PageRowsIn(e) ==
    IF ~IsOk(e) THEN <<>>
    ELSE IF e.api = "v2" THEN Get(e.body, "data", <<>>)
    ELSE IF e.api = "soql" THEN Get(e.body, "records", <<>>)
    ELSE <<>>

\* the rows of all pages the call received, in order
ReceivedRows(p) ==
    Flatten([i \in 1..Len(resps[p]) |-> PageRowsIn(resps[p][i])])

\* the fallback result of get_connect_segment_members
MembersFallback(p) ==
    /\ Done(p)
    /\ name[p] = "get_connect_segment_members"
    /\ outcome[p].kind = "json"
    /\ "source" \in DOMAIN outcome[p].value
    /\ outcome[p].value["source"] = "Query API fallback"

\* C19: every result the query path returns has done true and a totalSize
\* equal to the number of rows it returns (data or records), which is the
\* number of rows of the pages received, whichever API answered and however
\* many pages were drained; the fallback result of
\* get_connect_segment_members has totalCount equal to the number of its
\* members.
C19_CountConsistency ==
    \A p \in Procs :
        /\ (Done(p) /\ name[p] \in QueryTools /\ outcome[p].kind = "json") =>
              LET v == outcome[p].value
              IN /\ v["done"] = TRUE
                 /\ ("data" \in DOMAIN v) # ("records" \in DOMAIN v)
                 /\ v["totalSize"] = Len(RowsOf(v))
                 /\ LogComplete(p) => v["totalSize"] = Len(ReceivedRows(p))
        /\ MembersFallback(p) =>
              /\ outcome[p].value["totalCount"] = Len(outcome[p].value["members"])
              /\ LogComplete(p) =>
                    outcome[p].value["totalCount"] = Len(ReceivedRows(p))

\* a query answered by two v2 pages of one row each
C19_Witness ==
    \E p \in Procs :
        /\ Done(p) /\ LogComplete(p)
        /\ name[p] = "query_data_cloud"
        /\ outcome[p].kind = "json"
        /\ Len(ApiResps(p)) = 2
        /\ \A i \in 1..2 : ApiResps(p)[i].api = "v2" /\ IsOk(ApiResps(p)[i])
        /\ outcome[p].value["totalSize"] = 2

\* a members fallback answered by the legacy API with one row
C19_WitnessMembers ==
    \E p \in Procs :
        /\ MembersFallback(p) /\ LogComplete(p)
        /\ outcome[p].value["totalCount"] = 1
        /\ ApiResps(p)[Len(ApiResps(p))].api = "soql"

\* the tool turned to the Connect API, was refused with a status other than
\* 200, and the query path it fell back to returned a result
FellBack(p) ==
    LET h == ApiResps(p)
        last == h[Len(h)]
    IN /\ Done(p) /\ LogComplete(p)
       /\ name[p] \in ConnectTools \cup ProfileTools
       /\ Len(h) >= 2
       /\ h[1].api = "connect" /\ h[1].kind = "http" /\ h[1].status # 200
       /\ last.kind = "http"
       /\ \/ last.api = "v2" /\ (last.status = 200 \/ Len(h) > 2)
          \/ last.api = "soql" /\ last.status = 200

\* the rows a fallback result reports
ReportedRows(nm, v) ==
    CASE nm \in {"get_connect_segments", "search_connect_segments"} ->
            Get(v, "segments", <<>>)
      [] nm = "get_connect_segment_members" -> Get(v, "members", <<>>)
      [] nm = "get_calculated_insights" -> Get(v, "insights", <<>>)
      [] nm = "get_connect_segment_details" ->
            IF "source" \in DOMAIN v THEN <<v["segment"]>> ELSE <<>>
      [] OTHER -> Get(v, "identity_graph", <<>>)

\* C20: whenever an operation falls back to the query path, the rows it
\* reports are exactly the rows the query path returned, whether the v2 API
\* (data) or the legacy API (records) answered; for
\* get_connect_segment_details, which reports one segment, the first of them.
C20_FallbackRows ==
    \A p \in Procs :
        FellBack(p) =>
            /\ outcome[p].kind = "json"
            /\ ReportedRows(name[p], outcome[p].value)
                 = IF name[p] = "get_connect_segment_details"
                   THEN (IF ReceivedRows(p) = <<>> THEN <<>>
                         ELSE <<ReceivedRows(p)[1]>>)
                   ELSE ReceivedRows(p)

-----------------------------------------------------------------------------
(* C21..C30 *)

\* the tools that can return a fabricated result
SimulatingTools == MutatingTools \cup ActivationTools \cup ProfileTools
                   \cup {"get_calculated_insights"}

\* the statuses of the first answer that make the tool return its body
AcceptedFirst(nm) ==
    IF nm \in MutatingTools \cup ActivationTools THEN Accepted(nm) ELSE {200}

SegmentReadTools == {"get_connect_segments", "get_connect_segment_details",
                     "get_connect_segment_members", "search_connect_segments"}

\* C22: every result of get_connect_segments, get_connect_segment_details,
\* get_connect_segment_members or search_connect_segments that was not the
\* body of a 200 answer of the Connect API - whether the query fallback
\* answered, found nothing, or failed - contains a note or a source field.
C22_DegradedEnvelope ==
    \A p \in Procs :
        (/\ Done(p) /\ LogComplete(p)
         /\ name[p] \in SegmentReadTools
         /\ outcome[p].kind = "json"
         /\ Len(ApiResps(p)) >= 1
         /\ ~IsOk(ApiResps(p)[1])) =>
            \/ "note" \in DOMAIN outcome[p].value
            \/ "source" \in DOMAIN outcome[p].value

\* C23: every invocation of the query path sends its first request to the
\* v2 target, whatever earlier invocations met (v2 having answered 404
\* before included); a request to the legacy target is never the first of
\* its invocation.
C23_StaticChain ==
    \A p \in Procs :
        (name[p] \in QueryTools /\ Len(ApiReqs(p)) >= 1) =>
            /\ ApiReqs(p)[1].api = "v2"
            /\ ApiReqs(p)[1].method = "POST"
            /\ \A i \in 1..Len(ApiReqs(p)) : ApiReqs(p)[i].api = "soql" => i > 1

\* an invocation that began after a v2 request had been answered 404 went to
\* the v2 target first and to the legacy target after it
C23_Witness ==
    \E p \in Procs :
        /\ prior[p]
        /\ name[p] \in QueryTools
        /\ Len(ApiReqs(p)) >= 2
        /\ ApiReqs(p)[1].api = "v2"
        /\ ApiReqs(p)[2].api = "soql"

\* C24: once the v2 target has answered the initial request of an invocation
\* of the query path with 200, no request is sent to the legacy target in
\* that invocation, whatever happens to the follow-up requests.
C24_FirstSuccessWins ==
    \A p \in Procs :
        (/\ name[p] \in QueryTools
         /\ Len(ApiResps(p)) >= 1
         /\ ApiResps(p)[1].api = "v2" /\ IsOk(ApiResps(p)[1])) =>
            \A i \in 1..Len(ApiReqs(p)) : ApiReqs(p)[i].api # "soql"

\* the Connect API refused the tool with a status other than 200 and the
\* query path it fell back to raised an exception
FallbackRaised(p) ==
    LET h == ApiResps(p)
        last == h[Len(h)]
    IN /\ Done(p) /\ LogComplete(p)
       /\ name[p] \in ConnectTools
       /\ Len(h) >= 2
       /\ h[1].api = "connect" /\ h[1].kind = "http" /\ h[1].status # 200
       /\ \/ last.kind = "exc"
          \/ last.api = "v2" /\ Len(h) = 2 /\ last.status # 200
          \/ last.api = "soql" /\ last.status # 200

\* C25: when the Connect API and then the query path fail for
\* get_connect_segments, get_connect_segment_details,
\* get_connect_segment_members, search_connect_segments or
\* get_calculated_insights, the operation still returns a result, that result
\* reports no rows, and its error field ends with the text of the last
\* failed answer.
C25_ExhaustionSurfacesError ==
    \A p \in Procs :
        FallbackRaised(p) =>
            LET h == ApiResps(p)
            IN /\ outcome[p].kind = "json"
               /\ ReportedRows(name[p], outcome[p].value) = <<>>
               /\ "error" \in DOMAIN outcome[p].value
               /\ LET err == outcome[p].value["error"]
                  IN err[Len(err)] = h[Len(h)].text

\* the text q asks for at most n rows
HasLimit(q, n) ==
    \E i \in 7..Len(q) :
        SubSeq(q, i - 6, i) = kwLIMIT \o SP \o <<ToString(n)>>

\* get_segment_members(segment_id, limit) against a legacy-only backend: the
\* v2 target answered 404, every legacy request was answered 200, and the
\* legacy pages hold limit rows in all
LegacyOnlyMembers(p) ==
    LET h == ApiResps(p)
    IN /\ name[p] = "get_segment_members"
       /\ Done(p) /\ LogComplete(p)
       /\ Len(h) >= 2
       /\ h[1].api = "v2" /\ Is404(h[1])
       /\ \A i \in 2..Len(h) : h[i].api = "soql" /\ IsOk(h[i])
       /\ Len(RowsFrom(h, 2, Len(h), "records")) = arguments[p]["limit"]

V2Raised(e, first) ==
    IF e.kind = "exc" THEN <<e.text>>
    ELSE IF first /\ e.status \notin {200, 404}
    THEN <<"Data Cloud Query failed: ", e.text>>
    ELSE <<>>

\* C27: in the query path the except clause classifies by message text
\* alone: when the v2 target answers the initial request with a status other
\* than 200 and 404, or any v2 request raises an exception, then the next
\* request goes to the legacy API if the message contains "404" or "URL No
\* Longer Exists", and otherwise the invocation ends with that message as its
\* error and no further request.
C27_ClassifiedByText ==
    \A p \in Procs :
        (name[p] = "query_data_cloud" /\ LogComplete(p)) =>
            \A i \in 1..Len(ApiResps(p)) :
                LET e == ApiResps(p)[i]
                    msg == V2Raised(e, i = 1)
                IN (e.api = "v2" /\ msg # <<>>) =>
                      IF Has404(e.text) \/ HasGone(e.text)
                      THEN /\ Len(ApiReqs(p)) > i
                           /\ ApiReqs(p)[i + 1].api = "soql"
                      ELSE /\ Done(p)
                           /\ Len(ApiReqs(p)) = i
                           /\ outcome[p] = ErrorOutcome(msg)

\* a 500 answer of the v2 target whose body text contains "404" made the
\* router fall back, and the legacy API then answered the query
C27_Witness ==
    \E p \in Procs :
        /\ name[p] = "query_data_cloud"
        /\ Done(p) /\ LogComplete(p)
        /\ Len(ApiResps(p)) = 2
        /\ ApiResps(p)[1].api = "v2"
        /\ ApiResps(p)[1].kind = "http" /\ ApiResps(p)[1].status = 500
        /\ Has404(ApiResps(p)[1].text)
        /\ ApiResps(p)[2].api = "soql" /\ IsOk(ApiResps(p)[2])
        /\ outcome[p].kind = "json"
        /\ "records" \in DOMAIN outcome[p].value

\* the same status with a body lacking those strings ended the request
C27_WitnessSurfaced ==
    \E p \in Procs :
        /\ name[p] = "query_data_cloud"
        /\ Done(p) /\ LogComplete(p)
        /\ Len(ApiResps(p)) = 1
        /\ ApiResps(p)[1].api = "v2"
        /\ ApiResps(p)[1].kind = "http" /\ ApiResps(p)[1].status = 500
        /\ ApiResps(p)[1].text = "Internal Server Error"
        /\ outcome[p].kind = "error"

\* the base URL a request is addressed to
BaseOf(rq) == rq.url[1]

\* C28: all the requests one invocation of the query path sends (the v2
\* POST, the batch follow-ups, the legacy GET and its follow-ups) carry the
\* same bearer token and go to the same instance base URL, also when another
\* call logs in and overwrites the shared credential meanwhile.
C28_OneCredentialPerRequest ==
    \A p \in Procs :
        name[p] \in QueryTools =>
            \A i, j \in 1..Len(ApiReqs(p)) :
                /\ ApiReqs(p)[i].token = ApiReqs(p)[j].token
                /\ BaseOf(ApiReqs(p)[i]) = BaseOf(ApiReqs(p)[j])

\* C29: in every invocation of the query path the POST to the v2 target
\* carries the caller's query text as it was given, and the first GET to the
\* legacy target carries exactly _convert_sql_to_soql of that text; the text
\* never reaches the v2 target translated nor the legacy target as given
\* when the translation differs.
C29_DialectPerTarget ==
    \A p \in Procs :
        name[p] \in QueryTools =>
            LET text == QueryOf(name[p], arguments[p])
                rs == ApiReqs(p)
            IN \A i \in 1..Len(rs) :
                  /\ (rs[i].api = "v2" /\ rs[i].method = "POST") =>
                        rs[i].q = text
                  /\ (rs[i].api = "soql" /\ rs[i - 1].api = "v2") =>
                        rs[i].q = convert_sql_to_soql(text)

\* a query beginning with SELECT TOP went to the v2 target as given and to
\* the legacy target rewritten with LIMIT
C29_Witness ==
    \E p \in Procs :
        /\ name[p] = "query_data_cloud"
        /\ Len(ApiReqs(p)) >= 2
        /\ ApiReqs(p)[1].api = "v2" /\ ApiReqs(p)[1].q = txtTopUpper
        /\ ApiReqs(p)[2].api = "soql"
        /\ ApiReqs(p)[2].q # txtTopUpper
        /\ LET q == ApiReqs(p)[2].q
           IN Len(q) >= 7 /\ SubSeq(q, Len(q) - 6, Len(q) - 2) = kwLIMIT

\* C30: the rows of a result of the query path come from one API only: a
\* result in the legacy shape (records) holds exactly the rows of the legacy
\* pages of its invocation and none of the rows the v2 API delivered before
\* the router fell back.
C30_RowsFromOneGeneration ==
    \A p \in Procs :
        (/\ Done(p) /\ LogComplete(p)
         /\ name[p] \in QueryTools
         /\ outcome[p].kind = "json"
         /\ "records" \in DOMAIN outcome[p].value) =>
            outcome[p].value["records"]
                = Flatten([i \in 1..Len(ApiResps(p)) |->
                              IF ApiResps(p)[i].api = "soql"
                              THEN PageRowsIn(ApiResps(p)[i]) ELSE <<>>])

-----------------------------------------------------------------------------
(* C31..C36 *)

\* the place of an API in the chain of a Connect-first read operation
Tier(api) == CASE api = "connect" -> 1 [] api = "v2" -> 2 [] OTHER -> 3

\* C31: get_connect_segments, get_connect_segment_details,
\* get_connect_segment_members and search_connect_segments issue their
\* requests in the order Connect API, v2, legacy: the first request goes to
\* the Connect API, at most one request is unanswered at any time, a request
\* to a later tier follows an answer of the tier before it that was not a
\* 200, and no request goes to a later tier once an earlier tier has
\* answered 200.
C31_ThreeTierChain ==
    \A p \in Procs :
        name[p] \in SegmentReadTools =>
            LET rs == ApiReqs(p)
                h == ApiResps(p)
            IN /\ Len(rs) <= Len(h) + 1
               /\ Len(rs) >= 1 => rs[1].api = "connect"
               /\ \A i \in 2..Len(rs) :
                     /\ Tier(rs[i].api) >= Tier(rs[i - 1].api)
                     /\ Tier(rs[i].api) > Tier(rs[i - 1].api) =>
                           /\ Tier(rs[i].api) = Tier(rs[i - 1].api) + 1
                           /\ ~IsOk(h[i - 1])
               /\ \A i \in 1..Len(h) : \A j \in 1..Len(rs) :
                     (j > i /\ IsOk(h[i])) => rs[j].api = h[i].api

\* C32: in every reachable state, also after a login that failed part-way,
\* session_id is set only if instance_url is set too.
C32_CredentialWellFormed ==
    session_id # None => instance_url # None

\* C33: only _authenticate writes the credential: a step changes session_id
\* or instance_url only if it is the arrival of a login answer; and once a
\* token is present, no step - whatever answer a request gets, 401 included -
\* changes the credential or starts a login.
C33_CredentialFrame ==
    [][/\ cred' # cred =>
            \E p \in Procs : pc[p] = "login" /\ pc'[p] # "login"
       /\ TruthyStr(session_id) =>
            /\ cred' = cred
            /\ \A p \in Procs : pc'[p] = "login" => pc[p] = "login"]_vars

\* a call that began with the credential present had a request answered 401
\* and ended with the credential as it was
C33_Witness ==
    \E p \in Procs :
        /\ Done(p)
        /\ TruthyStr(session_id) /\ instance_url # None
        /\ Len(resps[p]) >= 1
        /\ resps[p][1].api # "login"
        /\ \E i \in 1..Len(resps[p]) :
              resps[p][i].kind = "http" /\ resps[p][i].status = 401

\* the call is suspended inside the query path
InQuery(p) == pc[p] \in {"v2_post", "v2_batch", "soql_get"}

\* C34: with concurrent query invocations on one server object, the rows an
\* invocation has accumulated are at every moment exactly the rows of the
\* pages returned to its own requests, in order, and so are the rows of its
\* result: no row received by one invocation appears in another's result.
C34_RequestIsolation ==
    \A p \in Procs :
        (name[p] = "query_data_cloud" /\ LogComplete(p)) =>
            /\ InQuery(p) => loc[p].all_records = ReceivedRows(p)
            /\ (Done(p) /\ outcome[p].kind = "json") =>
                  RowsOf(outcome[p].value) = ReceivedRows(p)

\* two invocations in progress at once, one holding the row of a v2 page and
\* awaiting a follow-up, one holding the row of a legacy page
C34_Witness ==
    \E p, q \in Procs :
        /\ p # q
        /\ pc[p] = "v2_batch" /\ loc[p].all_records = <<"r1">>
        /\ pc[q] = "soql_get" /\ loc[q].all_records = <<"r2">>

\* two invocations that overlapped returned each its own row
C34_WitnessResults ==
    \E p, q \in Procs :
        /\ p # q
        /\ Done(p) /\ Done(q)
        /\ outcome[p].kind = "json" /\ outcome[q].kind = "json"
        /\ RowsOf(outcome[p].value) = <<"r1">>
        /\ RowsOf(outcome[q].value) = <<"r2">>

\* C35: when a legacy request of the query path - the first page or a
\* nextRecordsUrl follow-up - is answered with a status other than 200, the
\* invocation ends there with the error "SOQL Query failed: " and the body
\* text, sends nothing more, and returns no result and so none of the rows
\* it had accumulated.
C35_LegacyAllOrNothing ==
    \A p \in Procs :
        (name[p] \in QueryTools /\ LogComplete(p)) =>
            \A i \in 1..Len(ApiResps(p)) :
                LET e == ApiResps(p)[i]
                IN (e.api = "soql" /\ e.kind = "http" /\ e.status # 200) =>
                      /\ Done(p)
                      /\ i = Len(ApiResps(p))
                      /\ Len(ApiReqs(p)) = i
                      /\ outcome[p] = ErrorOutcome(<<"SOQL Query failed: ", e.text>>)

\* a legacy page with a row was followed by a follow-up answered 500: the
\* call ended with the error
C35_Witness ==
    \E p \in Procs :
        /\ name[p] = "query_data_cloud"
        /\ Done(p) /\ LogComplete(p)
        /\ Len(ApiResps(p)) = 3
        /\ ApiResps(p)[2].api = "soql" /\ IsOk(ApiResps(p)[2])
        /\ PageRowsIn(ApiResps(p)[2]) # <<>>
        /\ ApiResps(p)[3].api = "soql"
        /\ ApiResps(p)[3].kind = "http" /\ ApiResps(p)[3].status = 500
        /\ outcome[p].kind = "error"

\* C36: for every input text x, _convert_sql_to_soql applied to
\* _convert_sql_to_soql(x) returns _convert_sql_to_soql(x).
C36_Idempotent ==
    cs # <<>> => convert_sql_to_soql(cs) = cs

====
